---- MODULE Spec2Model ----
(***************************************************************************)
(* Model of cli_analyzer.py: the chunker (chunk_text), the prompt loader   *)
(* (load_prompt), the analysis invoker with its reply normalisation        *)
(* (analyze_with_bedrock) and the directory walk of main.                  *)
(*                                                                         *)
(* A Python str is a sequence of one-character strings.  A call that can   *)
(* raise is an operator returning a record with a `raised` field.          *)
(***************************************************************************)
EXTENDS Integers, Sequences, FiniteSets, TLC

VARIABLES
    pc,             \* position of the running program
    c_text, c_max,  \* chunk_text: the arguments text, max_chars
    c_res,          \* chunk_text: the outcome of the call
    n_raw, n_pillar,\* reply normalisation: text_out and pillar
    n_res,          \* reply normalisation: the outcome
    tf_dir_exists,  \* os.path.exists(tf_dir)
    walk,           \* the files os.walk yields, in order
    templates,      \* pillars whose prompts/<name>.txt exists
    reply,          \* content blocks the remote model answers with
    idx,            \* position in walk (1-based)
    content_len,    \* len(content) of the file being analysed; content is FileText(content_len)
    file_results,   \* main: file_results
    p,              \* index into pillars of the pillar being analysed
    ci,             \* enumerate index into chunks (1-based)
    pillar_results, \* main: pillar_results
    results,        \* main: results
    written,        \* the sequence of reports written by json.dump
    calls,          \* history: the analyze_with_bedrock invocations made
    stored,         \* history: the walk positions whose file_results were stored
    failing         \* the invocations (by ordinal in the run) whose remote call fails

vars == <<pc, c_text, c_max, c_res, n_raw, n_pillar, n_res, tf_dir_exists, walk,
          templates, reply, idx, content_len, file_results, p, ci, pillar_results,
          results, written, calls, stored, failing>>

chunkVars == <<c_text, c_max, c_res>>
normVars  == <<n_raw, n_pillar, n_res>>
mainVars  == <<tf_dir_exists, walk, templates, reply, idx, content_len, file_results,
               p, ci, pillar_results, results, written, calls, stored, failing>>

Min(a, b) == IF a < b THEN a ELSE b

(***************************************************************************)
(* Bounds of the model.                                                    *)
(***************************************************************************)
MaxLen      == 4    \* longest text handed to chunk_text on its own
MaxS        == 3    \* chunk sizes range over -MaxS..MaxS
MaxReplyLen == 3    \* longest free-form reply over ReplyAlphabet
MaxFiles    == 2    \* longest walk
MaxFailAt   == 2    \* only the first MaxFailAt invocations of a run may fail remotely

(***************************************************************************)
(* Program constants.                                                      *)
(***************************************************************************)
DefaultMaxChars == 2000
ChunkThreshold  == 2000

pillars == << "Operational Excellence", "Security", "Reliability",
              "Performance Efficiency", "Cost Optimization", "Sustainability" >>

(***************************************************************************)
(* chunk_text.  range(0, Len(text), max_chars) raises ValueError for a     *)
(* zero step and is empty for a negative one; text[i:i+max_chars] is       *)
(* clipped at the end of the text.                                         *)
(***************************************************************************)
\* str(e) of the ValueError range() raises
E_VALUE == <<"V", "a", "l", "u", "e", "E", "r", "r", "o", "r">>

py_range_len(stop, step) ==
    IF step > 0 THEN (IF stop <= 0 THEN 0 ELSE (stop + step - 1) \div step)
    ELSE 0

\* s[a:b] for 0 <= a <= b: the characters after the first a, up to the b-th
py_slice(s, a, b) == SubSeq(s, a + 1, Min(b, Len(s)))

chunk_text_off_by_one(text, max_chars) ==
    IF max_chars = 0
    THEN [raised |-> TRUE, msg |-> E_VALUE, chunks |-> << >>]
    ELSE [raised |-> FALSE, msg |-> << >>,
          chunks |-> [k \in 1..py_range_len(Len(text), max_chars) |->
                        py_slice(text, (k - 1) * max_chars, k * max_chars + 1)]]

chunk_text_at_least_once(text, max_chars) ==
    IF max_chars = 0
    THEN [raised |-> TRUE, msg |-> E_VALUE, chunks |-> << >>]
    ELSE IF Len(text) = 0
    THEN [raised |-> FALSE, msg |-> << >>, chunks |-> << << >> >>]
    ELSE [raised |-> FALSE, msg |-> << >>,
          chunks |-> [k \in 1..py_range_len(Len(text), max_chars) |->
                        py_slice(text, (k - 1) * max_chars, k * max_chars)]]

\* for i in range(0, Len(text), max_chars): chunks.append(text[i:i+max_chars])
chunk_text(text, max_chars) ==
    IF max_chars = 0
    THEN [raised |-> TRUE, msg |-> E_VALUE, chunks |-> << >>]
    ELSE [raised |-> FALSE, msg |-> << >>,
          chunks |-> [k \in 1..py_range_len(Len(text), max_chars) |->
                        py_slice(text, (k - 1) * max_chars, k * max_chars)]]

(***************************************************************************)
(* Text helpers.                                                           *)
(***************************************************************************)
HasAt(s, i, pat) ==
    /\ i >= 1
    /\ i + Len(pat) - 1 <= Len(s)
    /\ SubSeq(s, i, i + Len(pat) - 1) = pat

PyWhitespace == {" ", "\n", "\t", "\r", "\f"}   \* what str.strip() removes

RECURSIVE lstrip_from(_, _)
lstrip_from(s, i) ==
    IF i <= Len(s) /\ s[i] \in PyWhitespace THEN lstrip_from(s, i + 1) ELSE i

RECURSIVE rstrip_to(_, _)
rstrip_to(s, j) ==
    IF j >= 1 /\ s[j] \in PyWhitespace THEN rstrip_to(s, j - 1) ELSE j

\* str.strip()
strip(s) == SubSeq(s, lstrip_from(s, 1), rstrip_to(s, Len(s)))

\* the backquote character (U+0060), which a TLA+ string cannot hold
BQ        == "BQ"
FenceJson == <<BQ, BQ, BQ, "j", "s", "o", "n">>
Fence     == <<BQ, BQ, BQ>>

\* ^ and $ under re.MULTILINE
AtLineStart(s, i) == i = 1 \/ s[i - 1] = "\n"
AtLineEnd(s, i)   == i = Len(s) + 1 \/ (i <= Len(s) /\ s[i] = "\n")

\* re.sub(FenceJson at ^ or Fence at $, "", s, flags=re.MULTILINE): leftmost matches,
\* first alternative first, scanning resumes after each match.
RECURSIVE re_sub_from(_, _, _)
re_sub_from(s, i, acc) ==
    IF i > Len(s) THEN acc
    ELSE IF AtLineStart(s, i) /\ HasAt(s, i, FenceJson)
         THEN re_sub_from(s, i + Len(FenceJson), acc)
    ELSE IF HasAt(s, i, Fence) /\ AtLineEnd(s, i + Len(Fence))
         THEN re_sub_from(s, i + Len(Fence), acc)
    ELSE re_sub_from(s, i + 1, Append(acc, s[i]))

re_sub_fences(s) == re_sub_from(s, 1, << >>)

(***************************************************************************)
(* JSON values: [t |-> kind, v |-> payload].  A string carries its         *)
(* characters, a number its lexeme, an array its items, an object its      *)
(* <<key, value>> pairs in insertion order (a dict).                       *)
(***************************************************************************)
JNull      == [t |-> "null",  v |-> << >>]
JTrue      == [t |-> "true",  v |-> << >>]
JFalse     == [t |-> "false", v |-> << >>]
JStr(cs)   == [t |-> "str", v |-> cs]
JNum(lex)  == [t |-> "num", v |-> lex]
JArr(xs)   == [t |-> "arr", v |-> xs]
JObj(kvs)  == [t |-> "obj", v |-> kvs]

\* d[key] = val on a dict: an existing key keeps its place
dict_set(kvs, key, val) ==
    IF \E i \in 1..Len(kvs) : kvs[i][1] = key
    THEN [i \in 1..Len(kvs) |-> IF kvs[i][1] = key THEN <<key, val>> ELSE kvs[i]]
    ELSE Append(kvs, <<key, val>>)

JsonWhitespace == {" ", "\t", "\n", "\r"}
Digits         == {"0", "1", "2", "3", "4", "5", "6", "7", "8", "9"}
ControlChars   == {"\n", "\t", "\r", "\f"}      \* rejected inside a string (strict)

Fail == [ok |-> FALSE, val |-> JNull, pos |-> 0]
Ok(val, pos) == [ok |-> TRUE, val |-> val, pos |-> pos]

RECURSIVE skip_ws(_, _)
skip_ws(s, i) ==
    IF i <= Len(s) /\ s[i] \in JsonWhitespace THEN skip_ws(s, i + 1) ELSE i

RECURSIVE scan_digits(_, _)
scan_digits(s, i) ==
    IF i <= Len(s) /\ s[i] \in Digits THEN scan_digits(s, i + 1) ELSE i

IsDigitAt(s, i) == i >= 1 /\ i <= Len(s) /\ s[i] \in Digits
IsCharAt(s, i, cs) == i >= 1 /\ i <= Len(s) /\ s[i] \in cs

\* NUMBER_RE = (-?(?:0|[1-9]\d*))(\.\d+)?([eE][-+]?\d+)? matched at i
match_number(s, i) ==
    LET a == IF IsCharAt(s, i, {"-"}) THEN i + 1 ELSE i
    IN  IF ~IsDigitAt(s, a) THEN Fail
        ELSE LET intEnd == IF s[a] = "0" THEN a + 1 ELSE scan_digits(s, a + 1)
                 fracEnd == IF IsCharAt(s, intEnd, {"."}) /\ IsDigitAt(s, intEnd + 1)
                            THEN scan_digits(s, intEnd + 2) ELSE intEnd
                 g == IF IsCharAt(s, fracEnd + 1, {"-", "+"})
                      THEN fracEnd + 2 ELSE fracEnd + 1
                 expEnd == IF IsCharAt(s, fracEnd, {"e", "E"}) /\ IsDigitAt(s, g)
                           THEN scan_digits(s, g + 1) ELSE fracEnd
             IN  Ok(JNum(SubSeq(s, i, expEnd - 1)), expEnd)

\* the escapes py_scanstring decodes to a character of the alphabet
\* (\b and \uXXXX name characters outside it)
Unescape(c) ==
    CASE c = "n" -> "\n" [] c = "t" -> "\t" [] c = "r" -> "\r" [] c = "f" -> "\f"
      [] OTHER -> c

\* py_scanstring from the character after the opening quote
RECURSIVE scanstring(_, _, _)
scanstring(s, i, acc) ==
    IF i > Len(s) THEN Fail
    ELSE IF s[i] = "\"" THEN Ok(JStr(acc), i + 1)
    ELSE IF s[i] \in ControlChars THEN Fail
    ELSE IF s[i] = "\\"
         THEN IF IsCharAt(s, i + 1, {"\"", "\\", "/", "n", "t", "r", "f"})
              THEN scanstring(s, i + 2, Append(acc, Unescape(s[i + 1])))
              ELSE Fail
    ELSE scanstring(s, i + 1, Append(acc, s[i]))

Lit_null     == <<"n", "u", "l", "l">>
Lit_true     == <<"t", "r", "u", "e">>
Lit_false    == <<"f", "a", "l", "s", "e">>
Lit_NaN      == <<"N", "a", "N">>
Lit_Infinity == <<"I", "n", "f", "i", "n", "i", "t", "y">>

RECURSIVE scan_once(_, _)
RECURSIVE object_members(_, _, _)
RECURSIVE array_items(_, _, _)

\* JSONObject from the character after "{"
JSONObject(s, i) ==
    LET j == skip_ws(s, i)
    IN  IF j > Len(s) THEN Fail
        ELSE IF s[j] = "}" THEN Ok(JObj(<< >>), j + 1)
        ELSE IF s[j] # "\"" THEN Fail
        ELSE object_members(s, j + 1, << >>)

\* one key: value pair and what follows it; i is after the opening quote of the key
object_members(s, i, acc) ==
    LET k == scanstring(s, i, << >>)
    IN  IF ~k.ok THEN Fail
        ELSE LET c == skip_ws(s, k.pos)
             IN  IF c > Len(s) \/ s[c] # ":" THEN Fail
                 ELSE LET val == scan_once(s, skip_ws(s, c + 1))
                      IN  IF ~val.ok THEN Fail
                          ELSE LET e    == skip_ws(s, val.pos)
                                   acc2 == dict_set(acc, k.val.v, val.val)
                               IN  IF e > Len(s) THEN Fail
                                   ELSE IF s[e] = "}" THEN Ok(JObj(acc2), e + 1)
                                   ELSE IF s[e] # "," THEN Fail
                                   ELSE LET q == skip_ws(s, e + 1)
                                        IN  IF q > Len(s) \/ s[q] # "\"" THEN Fail
                                            ELSE object_members(s, q + 1, acc2)

\* JSONArray from the character after "["
JSONArray(s, i) ==
    LET j == skip_ws(s, i)
    IN  IF j <= Len(s) /\ s[j] = "]" THEN Ok(JArr(<< >>), j + 1)
        ELSE array_items(s, j, << >>)

array_items(s, i, acc) ==
    LET val == scan_once(s, i)
    IN  IF ~val.ok THEN Fail
        ELSE LET e == skip_ws(s, val.pos)
             IN  IF e > Len(s) THEN Fail
                 ELSE IF s[e] = "]" THEN Ok(JArr(Append(acc, val.val)), e + 1)
                 ELSE IF s[e] # "," THEN Fail
                 ELSE array_items(s, skip_ws(s, e + 1), Append(acc, val.val))

\* json.scanner.py_make_scanner._scan_once
scan_once(s, i) ==
    IF i > Len(s) THEN Fail
    ELSE IF s[i] = "\"" THEN scanstring(s, i + 1, << >>)
    ELSE IF s[i] = "{" THEN JSONObject(s, i + 1)
    ELSE IF s[i] = "[" THEN JSONArray(s, i + 1)
    ELSE IF HasAt(s, i, Lit_null) THEN Ok(JNull, i + 4)
    ELSE IF HasAt(s, i, Lit_true) THEN Ok(JTrue, i + 4)
    ELSE IF HasAt(s, i, Lit_false) THEN Ok(JFalse, i + 5)
    ELSE IF IsCharAt(s, i, Digits \cup {"-"}) /\ IsDigitAt(s, IF s[i] = "-" THEN i + 1 ELSE i)
         THEN match_number(s, i)
    ELSE IF HasAt(s, i, Lit_NaN) THEN Ok(JNum(Lit_NaN), i + 3)
    ELSE IF HasAt(s, i, Lit_Infinity) THEN Ok(JNum(Lit_Infinity), i + 8)
    ELSE IF HasAt(s, i, <<"-">> \o Lit_Infinity)
         THEN Ok(JNum(<<"-">> \o Lit_Infinity), i + 9)
    ELSE Fail

\* json.loads(s): one value, JSON whitespace around it, nothing else
json_loads(s) ==
    LET val == scan_once(s, skip_ws(s, 1))
    IN  IF val.ok /\ skip_ws(s, val.pos) = Len(s) + 1
        THEN [raised |-> FALSE, value |-> val.val]
        ELSE [raised |-> TRUE, value |-> JNull]


(***************************************************************************)
(* Reply normalisation: the fence stripping, the JSON parse and the        *)
(* fallback of analyze_with_bedrock.                                       *)
(***************************************************************************)
K_issues         == <<"i", "s", "s", "u", "e", "s">>
K_description    == <<"d", "e", "s", "c", "r", "i", "p", "t", "i", "o", "n">>
K_severity       == <<"s", "e", "v", "e", "r", "i", "t", "y">>
K_recommendation == <<"r", "e", "c", "o", "m", "m", "e", "n", "d", "a", "t", "i", "o", "n">>
K_pillar         == <<"p", "i", "l", "l", "a", "r">>
V_UNKNOWN        == <<"U", "N", "K", "N", "O", "W", "N">>
V_Check_manually == <<"C", "h", "e", "c", "k", " ", "m", "a", "n", "u", "a", "l", "l", "y">>

\* the characters of a pillar name
Chars(pillar) ==
    CASE pillar = "Operational Excellence" ->
           <<"O", "p", "e", "r", "a", "t", "i", "o", "n", "a", "l", " ", "E", "x", "c", "e", "l", "l", "e", "n", "c", "e">>
      [] pillar = "Security" ->
           <<"S", "e", "c", "u", "r", "i", "t", "y">>
      [] pillar = "Reliability" ->
           <<"R", "e", "l", "i", "a", "b", "i", "l", "i", "t", "y">>
      [] pillar = "Performance Efficiency" ->
           <<"P", "e", "r", "f", "o", "r", "m", "a", "n", "c", "e", " ", "E", "f", "f", "i", "c", "i", "e", "n", "c", "y">>
      [] pillar = "Cost Optimization" ->
           <<"C", "o", "s", "t", " ", "O", "p", "t", "i", "m", "i", "z", "a", "t", "i", "o", "n">>
      [] pillar = "Sustainability" ->
           <<"S", "u", "s", "t", "a", "i", "n", "a", "b", "i", "l", "i", "t", "y">>

\* the dict built when json.loads raises
Fallback(clean_text, pillar) ==
    JObj(<< <<K_issues, JArr(<< JObj(<<
        <<K_description,    JStr(clean_text)>>,
        <<K_severity,       JStr(V_UNKNOWN)>>,
        <<K_recommendation, JStr(V_Check_manually)>>,
        <<K_pillar,         JStr(Chars(pillar))>> >>) >>)>> >>)

\* the value returned once json.loads(clean_text) has returned or raised
normalized(clean_text, loaded, pillar) ==
    [raised       |-> FALSE,
     msg          |-> << >>,
     clean_text   |-> clean_text,
     parse_failed |-> loaded.raised,
     value        |-> IF loaded.raised THEN Fallback(clean_text, pillar)
                      ELSE loaded.value]

\* the same without the try/except around json.loads
normalized_no_except(clean_text, loaded, pillar) ==
    [raised       |-> loaded.raised,
     msg          |-> IF loaded.raised THEN <<"J", "S", "O", "N">> ELSE << >>,
     clean_text   |-> clean_text,
     parse_failed |-> loaded.raised,
     value        |-> loaded.value]

parse_clean(clean_text, pillar) ==
    normalized(clean_text, json_loads(clean_text), pillar)

parse_clean_no_except(clean_text, pillar) ==
    normalized_no_except(clean_text, json_loads(clean_text), pillar)

\* the fallback describes text_out instead of clean_text
parse_raw(text_out, clean_text, pillar) ==
    normalized(text_out, json_loads(clean_text), pillar)

normalize_reply_no_except(text_out, pillar) ==
    parse_clean_no_except(strip(re_sub_fences(strip(text_out))), pillar)

normalize_reply_raw_description(text_out, pillar) ==
    parse_raw(text_out, strip(re_sub_fences(strip(text_out))), pillar)

\* lines 51-60: clean_text, the parse and the returned value; every exception
\* of json.loads is caught, so the step itself does not raise
normalize_reply(text_out, pillar) ==
    parse_clean(strip(re_sub_fences(strip(text_out))), pillar)

(***************************************************************************)
(* Inputs of the two pure-function specifications.                         *)
(***************************************************************************)
SeqsUpTo(S, n) == UNION {[1..k -> S] : k \in 0..n}

Alphabet == {"a", "b"}
Texts    == SeqsUpTo(Alphabet, MaxLen)
Sizes    == (0 - MaxS)..MaxS

ReplyPrefixes == {
    << >>,
    <<BQ, BQ, BQ, "j", "s", "o", "n", "\n">>,
    <<BQ, BQ, BQ, "\n">>,
    <<" ">>,
    <<"H", "e", "r", "e", ":", "\n", BQ, BQ, BQ, "j", "s", "o", "n", "\n">>,
    <<BQ, BQ, BQ, "j", "s", "o", "n">> }
ReplyBodies == {
    <<"{", "\"", "i", "s", "s", "u", "e", "s", "\"", ":", "[", "]", "}">>,
    <<"n", "o", "t", " ", "j", "s", "o", "n", " ", "a", "t", " ", "a", "l", "l">>,
    <<"{", "\"", "a", "\"", ":", "1", "}">>,
    <<"[", "]">>,
    <<"n", "u", "l", "l">>,
    << >>,
    <<"{", "\"", "i", "s", "s", "u", "e", "s", "\"", ":", "[", "]", ",", "}">>,
    <<"\"", "a", "\n", "b", "\"">>,
    <<"1", "e", "1">>,
    <<"0", "1">>,
    <<"{", "\"", "i", "s", "s", "u", "e", "s", "\"", ":", "1", ",", "\"", "i", "s", "s", "u", "e", "s", "\"", ":", "[", "]", "}">>,
    <<"{", "\"", "a", "\"", ":", "\"", BQ, BQ, BQ, "\"", "}">>,
    <<"{", " ", "\"", "i", "s", "s", "u", "e", "s", "\"", " ", ":", " ", "[", " ", "{", "\"", "s", "e", "v", "e", "r", "i", "t", "y", "\"", ":", "\"", "L", "O", "W", "\"", "}", " ", "]", " ", "}">>,
    <<"-", "0", ".", "5", "E", "+", "2", "x">> }
ReplySuffixes == {
    << >>,
    <<"\n", BQ, BQ, BQ>>,
    <<BQ, BQ, BQ>>,
    <<"\n", BQ, BQ, BQ, "\n">>,
    <<" ">> }
ReplyAlphabet == {BQ, "\n", " ", "[", "]", "1", "\""}
Replies ==
    {pre \o body \o suf : pre \in ReplyPrefixes, body \in ReplyBodies,
                          suf \in ReplySuffixes}
    \cup SeqsUpTo(ReplyAlphabet, MaxReplyLen)

PillarSet == {pillars[i] : i \in 1..Len(pillars)}

None == [raised |-> FALSE, msg |-> << >>]


(***************************************************************************)
(* The prompt loader and the analysis invoker.                             *)
(***************************************************************************)
\* pillar.lower().replace(" ", "_") + ".txt" on the six pillars
prompt_filename(pillar) ==
    CASE pillar = "Operational Excellence" -> "operational_excellence.txt"
      [] pillar = "Security" -> "security.txt"
      [] pillar = "Reliability" -> "reliability.txt"
      [] pillar = "Performance Efficiency" -> "performance_efficiency.txt"
      [] pillar = "Cost Optimization" -> "cost_optimization.txt"
      [] pillar = "Sustainability" -> "sustainability.txt"

AllTemplates == {prompt_filename(pillars[i]) : i \in 1..Len(pillars)}

\* a template: text around occurrences of the placeholder {code}
Template == <<"t", "{code}", "t">>

RECURSIVE replace_code(_, _)
replace_code(template, code) ==
    IF template = << >> THEN << >>
    ELSE (IF Head(template) = "{code}" THEN code ELSE <<Head(template)>>)
         \o replace_code(Tail(template), code)

E_NOENT  == <<"E", "N", "O", "E", "N", "T">>
E_REMOTE == <<"r", "e", "m", "o", "t", "e">>
K_error  == <<"e", "r", "r", "o", "r">>

\* template.replace("{code}", code): the prompt sent when the template exists
prompt_text(code) == replace_code(Template, code)

load_prompt_empty_when_missing(pillar, code, store) ==
    [raised |-> FALSE, msg |-> << >>]

\* open() raises FileNotFoundError when prompts/<filename> is absent;
\* otherwise prompt_text(code) is returned
load_prompt(pillar, code, store) ==
    IF prompt_filename(pillar) \notin store
    THEN [raised |-> TRUE, msg |-> E_NOENT]
    ELSE [raised |-> FALSE, msg |-> << >>]

\* "".join(c["text"] for c in data.get("content", []) if c["type"] == "text")
RECURSIVE extract_text(_)
extract_text(blocks) ==
    IF blocks = << >> THEN << >>
    ELSE (IF Head(blocks).type = "text" THEN Head(blocks).text ELSE << >>)
         \o extract_text(Tail(blocks))

\* the bodies the remote model answers with in a run: a fenced JSON object,
\* and prose split over content blocks with a non-text block between
B_reply_json == FenceJson \o <<"\n">> \o <<"{", "\"", "i", "s", "s", "u", "e", "s", "\"", ":", "[", "]", "}">> \o <<"\n">> \o Fence
R_fenced_json == << [type |-> "text", text |-> B_reply_json] >>
R_prose       == << [type |-> "text", text |-> <<"n", "o", "t", " ", "j", "s", "o", "n">>],
                    [type |-> "tool_use", text |-> <<"x">>],
                    [type |-> "text", text |-> <<" ", "a", "t", " ", "a", "l", "l">>] >>
Responses == {R_fenced_json, R_prose}

\* lines 51-58 applied to each response and pillar: what the function computes
\* from data once invoke_model has returned
Normalized == [r \in Responses |-> [q \in PillarSet |-> normalize_reply(extract_text(r), q)]]

\* return parsed
Returned(n) == [raised |-> n.raised, msg |-> n.msg, value |-> n.value]

\* remote_ok: client.invoke_model returned; response: its content blocks.
\* Nothing in the function catches load_prompt's or invoke_model's exception.
analyze_with_bedrock(text, pillar, store, remote_ok, response) ==
    IF load_prompt(pillar, text, store).raised
        THEN [raised |-> TRUE, msg |-> load_prompt(pillar, text, store).msg,
              value |-> JNull]
        ELSE IF ~remote_ok
        THEN [raised |-> TRUE, msg |-> E_REMOTE, value |-> JNull]
        ELSE Returned(Normalized[response][pillar])

\* {"error": str(e)}
ErrorOutcome(msg) == JObj(<< <<K_error, JStr(msg)>> >>)


(***************************************************************************)
(* Values the variables of the other specifications rest at.               *)
(***************************************************************************)
ChunkIdle ==
    /\ c_text = << >>
    /\ c_max = DefaultMaxChars
    /\ c_res = None

NormIdle ==
    /\ n_raw = << >>
    /\ n_pillar = pillars[1]
    /\ n_res = None

MainIdle ==
    /\ tf_dir_exists = FALSE
    /\ walk = << >>
    /\ templates = {}
    /\ reply = << >>
    /\ idx = 1
    /\ content_len = 0
    /\ file_results = << >>
    /\ p = 1
    /\ ci = 1
    /\ pillar_results = << >>
    /\ results = << >>
    /\ written = << >>
    /\ calls = << >>
    /\ stored = << >>
    /\ failing = {}

(***************************************************************************)
(* SpecChunk: chunk_text applied to every text and chunk size in bounds.   *)
(***************************************************************************)
InitChunk ==
    /\ pc = "c_start"
    /\ c_text \in Texts
    /\ c_max \in Sizes
    /\ c_res = None
    /\ NormIdle
    /\ MainIdle

CallChunkText ==
    /\ pc = "c_start"
    /\ c_res' = chunk_text(c_text, c_max)
    /\ pc' = "c_done"
    /\ UNCHANGED <<c_text, c_max, normVars, mainVars>>

NextChunk == CallChunkText

SpecChunk == InitChunk /\ [][NextChunk]_vars

(***************************************************************************)
(* SpecNorm: the reply normalisation applied to every reply and pillar.    *)
(***************************************************************************)
InitNorm ==
    /\ pc = "n_start"
    /\ n_raw \in Replies
    /\ n_pillar \in PillarSet
    /\ n_res = None
    /\ ChunkIdle
    /\ MainIdle

Normalize ==
    /\ pc = "n_start"
    /\ n_res' = normalize_reply(n_raw, n_pillar)
    /\ pc' = "n_done"
    /\ UNCHANGED <<n_raw, n_pillar, chunkVars, mainVars>>

NextNorm == Normalize

SpecNorm == InitNorm /\ [][NextNorm]_vars


(***************************************************************************)
(* The directory walk of main.                                             *)
(***************************************************************************)
N_main_tf  == <<"m", "a", "i", "n", ".", "t", "f">>
N_vars_tf  == <<"v", "a", "r", "s", ".", "t", "f">>
N_notes_md == <<"n", "o", "t", "e", "s", ".", "m", "d">>
Ext_tf     == <<".", "t", "f">>

\* the files under tf_dir, in the order os.walk visits them
AllPaths == << [dir |-> ".",       name |-> N_main_tf],
               [dir |-> ".",       name |-> N_notes_md],
               [dir |-> "modules", name |-> N_main_tf],
               [dir |-> "modules", name |-> N_vars_tf] >>

FileSizes == {0, ChunkThreshold, ChunkThreshold + 1, 3500}

\* file.endswith(".tf")
endswith_tf(name) == HasAt(name, Len(name) - Len(Ext_tf) + 1, Ext_tf)

FileChoices(path) ==
    IF ~endswith_tf(path.name)
    THEN {[dir |-> path.dir, name |-> path.name, readable |-> TRUE, size |-> 0]}
    ELSE {[dir |-> path.dir, name |-> path.name, readable |-> FALSE, size |-> 0]}
         \cup {[dir |-> path.dir, name |-> path.name, readable |-> TRUE, size |-> n]
               : n \in FileSizes}

RECURSIVE SortedSeq(_)
SortedSeq(S) ==
    IF S = {} THEN << >>
    ELSE LET m == CHOOSE x \in S : \A y \in S : x <= y
         IN  <<m>> \o SortedSeq(S \ {m})

WalksOver(S) ==
    LET order == SortedSeq(S)
    IN  {w \in [1..Len(order) -> UNION {FileChoices(AllPaths[i]) : i \in S}] :
            \A i \in 1..Len(order) : w[i] \in FileChoices(AllPaths[order[i]])}

Walks == UNION {WalksOver(S) : S \in {T \in SUBSET (1..Len(AllPaths)) :
                                          Cardinality(T) <= MaxFiles}}


\* the template stores and the reply of the remote model in a run
Environments == {
    [store |-> AllTemplates, reply |-> R_fenced_json],
    [store |-> AllTemplates \ {prompt_filename("Security")}, reply |-> R_prose],
    [store |-> {}, reply |-> R_fenced_json] }

\* the characters of a file of n characters: character i is i
FileText(n) == [i \in 1..n |-> i]

too_large_off_by_one(n) == n > ChunkThreshold + 1

\* len(content) > 2000
too_large(n) == n > ChunkThreshold

\* what a call is remembered by: where its text starts in the file and how
\* long it is, and how the call ended
CallRecord(text, pillar, out) ==
    [file |-> idx, pillar |-> pillar,
     first |-> IF Len(text) = 0 THEN 0 ELSE text[1], len |-> Len(text),
     raised |-> out.raised, msg |-> out.msg, value |-> out.value]

InitMain ==
    /\ pc = "m_start"
    /\ tf_dir_exists \in BOOLEAN
    /\ IF tf_dir_exists
       THEN /\ walk \in Walks
            /\ \E env \in Environments :
                 /\ templates = env.store
                 /\ reply = env.reply
            /\ IF templates # {} /\ \E i \in 1..Len(walk) :
                                       walk[i].readable /\ endswith_tf(walk[i].name)
               THEN failing \in SUBSET (1..MaxFailAt)
               ELSE failing = {}
       ELSE /\ walk = << >>
            /\ templates = AllTemplates
            /\ reply = << >>
            /\ failing = {}
    /\ idx = 1
    /\ content_len = 0
    /\ file_results = << >>
    /\ p = 1
    /\ ci = 1
    /\ pillar_results = << >>
    /\ results = << >>
    /\ written = << >>
    /\ calls = << >>
    /\ stored = << >>
    /\ ChunkIdle
    /\ NormIdle


\* lines 94-97: the run ends at once when tf_dir is absent
DirMissing ==
    /\ pc = "m_start"
    /\ ~tf_dir_exists
    /\ pc' = "m_done"
    /\ UNCHANGED <<chunkVars, normVars, mainVars>>

\* line 99 and the head of the walk
DirFound ==
    /\ pc = "m_start"
    /\ tf_dir_exists
    /\ results' = << >>
    /\ pc' = "m_walk"
    /\ UNCHANGED <<chunkVars, normVars, tf_dir_exists, walk, templates, reply, idx,
                   content_len, file_results, p, ci, pillar_results, written, calls,
                   stored, failing>>

\* line 117: a file whose name does not end in .tf
SkipOther ==
    /\ pc = "m_walk"
    /\ idx <= Len(walk)
    /\ ~endswith_tf(walk[idx].name)
    /\ idx' = idx + 1
    /\ UNCHANGED <<pc, chunkVars, normVars, tf_dir_exists, walk, templates, reply,
                   content_len, file_results, p, ci, pillar_results, results,
                   written, calls, stored, failing>>

ReadErrorAborts ==
    /\ pc = "m_walk"
    /\ idx <= Len(walk)
    /\ endswith_tf(walk[idx].name)
    /\ ~walk[idx].readable
    /\ pc' = "m_done"
    /\ UNCHANGED <<chunkVars, normVars, mainVars>>

ReadErrorFallsThrough ==
    /\ pc = "m_walk"
    /\ idx <= Len(walk)
    /\ endswith_tf(walk[idx].name)
    /\ ~walk[idx].readable
    /\ content_len' = 0
    /\ file_results' = << >>
    /\ p' = 1
    /\ pc' = "m_pillars"
    /\ UNCHANGED <<chunkVars, normVars, tf_dir_exists, walk, templates, reply, idx,
                   ci, pillar_results, results, written, calls, stored, failing>>

\* lines 121-126: open/read raises, the file is skipped (continue)
ReadError ==
    /\ pc = "m_walk"
    /\ idx <= Len(walk)
    /\ endswith_tf(walk[idx].name)
    /\ ~walk[idx].readable
    /\ idx' = idx + 1
    /\ UNCHANGED <<pc, chunkVars, normVars, tf_dir_exists, walk, templates, reply,
                   content_len, file_results, p, ci, pillar_results, results,
                   written, calls, stored, failing>>

\* lines 121-128: the file is read, file_results = {}
ReadFile ==
    /\ pc = "m_walk"
    /\ idx <= Len(walk)
    /\ endswith_tf(walk[idx].name)
    /\ walk[idx].readable
    /\ content_len' = walk[idx].size
    /\ file_results' = << >>
    /\ p' = 1
    /\ pc' = "m_pillars"
    /\ UNCHANGED <<chunkVars, normVars, tf_dir_exists, walk, templates, reply, idx,
                   ci, pillar_results, results, written, calls, stored, failing>>

\* whether client.invoke_model returns on the invocation about to be made
remote_ok == (Len(calls) + 1) \notin failing

\* lines 145-151: one call on the whole content; an exception becomes
\* [{"error": str(e)}]
AnalyzeWhole ==
    /\ pc = "m_pillars"
    /\ p <= Len(pillars)
    /\ ~too_large(content_len)
    /\ \E out \in {analyze_with_bedrock(FileText(content_len), pillars[p],
                                        templates, remote_ok, reply)} :
         /\ file_results' =
                dict_set(file_results, pillars[p],
                         IF out.raised THEN <<ErrorOutcome(out.msg)>>
                         ELSE <<out.value>>)
         /\ calls' = Append(calls, CallRecord(FileText(content_len), pillars[p], out))
    /\ p' = p + 1
    /\ UNCHANGED <<pc, chunkVars, normVars, tf_dir_exists, walk, templates, reply,
                   idx, content_len, ci, pillar_results, results, written, stored,
                   failing>>

\* chunks = chunk_text(content)
chunks == chunk_text(FileText(content_len), DefaultMaxChars)

\* the chunk loop is left (break) at the first call that raises
ChunkCallBreaksOnError(text, last, out) ==
    /\ calls' = Append(calls, CallRecord(text, pillars[p], out))
    /\ IF ~last /\ ~out.raised
       THEN /\ pillar_results' = Append(pillar_results, out.value)
            /\ ci' = ci + 1
            /\ UNCHANGED <<file_results, p>>
       ELSE /\ file_results' =
                   dict_set(file_results, pillars[p],
                            Append(pillar_results,
                                   IF out.raised THEN ErrorOutcome(out.msg)
                                   ELSE out.value))
            /\ p' = p + 1
            /\ pillar_results' = << >>
            /\ ci' = 1

\* lines 137-144 for the chunk text, given how the call on it ended: the
\* outcome, or {"error": str(e)}, is appended; after the last chunk line 144
\* stores the list
ChunkCall(text, last, out) ==
    /\ calls' = Append(calls, CallRecord(text, pillars[p], out))
    /\ IF ~last
       THEN /\ pillar_results' =
                   Append(pillar_results,
                          IF out.raised THEN ErrorOutcome(out.msg) ELSE out.value)
            /\ ci' = ci + 1
            /\ UNCHANGED <<file_results, p>>
       ELSE /\ file_results' =
                   dict_set(file_results, pillars[p],
                            Append(pillar_results,
                                   IF out.raised THEN ErrorOutcome(out.msg)
                                   ELSE out.value))
            /\ p' = p + 1
            /\ pillar_results' = << >>
            /\ ci' = 1

\* lines 134-144: one turn of the chunk loop of pillar p.  chunks and
\* pillar_results = [] are set on entry (ci = 1); should chunk_text raise,
\* lines 149-151 record the error; an empty chunks stores [].
AnalyzeChunk ==
    /\ pc = "m_pillars"
    /\ p <= Len(pillars)
    /\ too_large(content_len)
    /\ \E ch \in {chunks} :
         IF ch.raised
         THEN /\ file_results' =
                     dict_set(file_results, pillars[p], <<ErrorOutcome(ch.msg)>>)
              /\ p' = p + 1
              /\ UNCHANGED <<ci, pillar_results, calls>>
         ELSE IF Len(ch.chunks) = 0
         THEN /\ file_results' = dict_set(file_results, pillars[p], << >>)
              /\ p' = p + 1
              /\ UNCHANGED <<ci, pillar_results, calls>>
         ELSE \E text \in {ch.chunks[ci]} :
              \E out \in {analyze_with_bedrock(text, pillars[p], templates,
                                               remote_ok, reply)} :
                  ChunkCall(text, ci = Len(ch.chunks), out)
    /\ UNCHANGED <<pc, chunkVars, normVars, tf_dir_exists, walk, templates, reply,
                   idx, content_len, results, written, stored, failing>>

\* line 153: results[file] = file_results, keyed by the bare file name
StoreFile ==
    /\ pc = "m_pillars"
    /\ p > Len(pillars)
    /\ results' = dict_set(results, walk[idx].name, file_results)
    /\ stored' = Append(stored, idx)
    /\ idx' = idx + 1
    /\ pc' = "m_walk"
    /\ UNCHANGED <<chunkVars, normVars, tf_dir_exists, walk, templates, reply,
                   content_len, file_results, p, ci, pillar_results, written, calls,
                   failing>>

\* lines 155-161: json.dump(results, f) once the walk is over
WriteReport ==
    /\ pc = "m_walk"
    /\ idx > Len(walk)
    /\ written' = Append(written, results)
    /\ pc' = "m_done"
    /\ UNCHANGED <<chunkVars, normVars, tf_dir_exists, walk, templates, reply, idx,
                   content_len, file_results, p, ci, pillar_results, results, calls,
                   stored, failing>>

Init == InitMain

Next ==
    \/ DirMissing
    \/ DirFound
    \/ SkipOther
    \/ ReadError
    \/ ReadFile
    \/ AnalyzeWhole
    \/ AnalyzeChunk
    \/ StoreFile
    \/ WriteReport

Spec == Init /\ [][Next]_vars

\* the program is sequential and every call returns or raises: a step that
\* can be taken is taken
FairSpec == Spec /\ WF_vars(Next)

(***************************************************************************)
(* Properties.                                                             *)
(***************************************************************************)
RECURSIVE Concat(_)
Concat(ss) == IF ss = << >> THEN << >> ELSE Head(ss) \o Concat(Tail(ss))

\* ceil(a / b) for a >= 0, b > 0
CeilDiv(a, b) == CHOOSE n \in 0..a : n * b >= a /\ (n = 0 \/ (n - 1) * b < a)

\* C1: for every text T and positive chunk size S, chunk_text(T, S) does not
\* raise, the concatenation of its chunks in order is T, every chunk is at
\* most S long, and there are ceil(len(T)/S) chunks.
C1_ChunksPartitionText ==
    (pc = "c_done" /\ c_max > 0) =>
        /\ ~c_res.raised
        /\ Concat(c_res.chunks) = c_text
        /\ \A k \in 1..Len(c_res.chunks) : Len(c_res.chunks[k]) <= c_max
        /\ Len(c_res.chunks) = CeilDiv(Len(c_text), c_max)

\* several chunks, the last one shorter than the chunk size
C1_Witness ==
    /\ pc = "c_done"
    /\ c_max > 1
    /\ Len(c_res.chunks) >= 2
    /\ Len(c_res.chunks[Len(c_res.chunks)]) < c_max

\* C10 as stated: for the empty text and any integer chunk size, chunk_text
\* returns the empty sequence.
C10_EmptyTextAnySize ==
    (pc = "c_done" /\ c_text = << >>) => (~c_res.raised /\ c_res.chunks = << >>)

\* C10 amended: for the empty text and any chunk size other than 0,
\* chunk_text returns the empty sequence; for chunk size 0 it raises.
C10_EmptyTextNonzeroSize ==
    (pc = "c_done" /\ c_text = << >>) =>
        IF c_max = 0 THEN c_res.raised
        ELSE ~c_res.raised /\ c_res.chunks = << >>

C10_Witness == pc = "c_done" /\ c_text = << >> /\ c_max < 0 /\ ~c_res.raised

HasIssuesList(val) ==
    /\ val.t = "obj"
    /\ \E i \in 1..Len(val.v) : val.v[i][1] = K_issues /\ val.v[i][2].t = "arr"

\* C2 as stated: the normalisation never raises and always returns an object
\* that has an issues list.
C2_AlwaysEnvelope ==
    pc = "n_done" => (~n_res.raised /\ HasIssuesList(n_res.value))

\* C2 amended: the normalisation never raises, and it returns an object that
\* has an issues list whenever the cleaned reply does not parse as JSON.
C2_NeverRaisesEnvelopeOnFallback ==
    pc = "n_done" =>
        /\ ~n_res.raised
        /\ n_res.parse_failed => HasIssuesList(n_res.value)

C2_Witness ==
    /\ pc = "n_done"
    /\ n_res.parse_failed
    /\ HasIssuesList(n_res.value)
    /\ n_res.clean_text # << >>

T_issues_empty == <<"{", "\"", "i", "s", "s", "u", "e", "s", "\"", ":", "[", "]", "}">>
T_not_json     == <<"n", "o", "t", " ", "j", "s", "o", "n", " ", "a", "t", " ", "a", "l", "l">>
T_Security     == <<"S", "e", "c", "u", "r", "i", "t", "y">>

\* C6: when the cleaned reply does not parse as JSON the result is exactly
\* {issues: [{description: cleaned text, severity: "UNKNOWN", recommendation:
\* "Check manually", pillar: category}]}; when it parses, the parsed value is
\* returned as it is.  The two replies the specification spells out are
\* checked against the values it gives.
C6_FallbackOrVerbatim ==
    pc = "n_done" =>
        /\ n_res.parse_failed =>
             n_res.value =
                [t |-> "obj", v |-> << <<K_issues, [t |-> "arr", v |-> <<
                    [t |-> "obj", v |-> <<
                        <<K_description,    [t |-> "str", v |-> n_res.clean_text]>>,
                        <<K_severity,       [t |-> "str", v |-> V_UNKNOWN]>>,
                        <<K_recommendation, [t |-> "str", v |-> V_Check_manually]>>,
                        <<K_pillar,         [t |-> "str", v |-> Chars(n_pillar)]>> >>]
                    >>]>> >>]
        /\ ~n_res.parse_failed =>
             /\ ~json_loads(n_res.clean_text).raised
             /\ n_res.value = json_loads(n_res.clean_text).value
        /\ n_raw = FenceJson \o <<"\n">> \o T_issues_empty \o <<"\n">> \o Fence =>
             /\ n_res.clean_text = T_issues_empty
             /\ n_res.value = [t |-> "obj", v |-> << <<K_issues, [t |-> "arr", v |-> << >>]>> >>]
        /\ (n_raw = T_not_json /\ n_pillar = "Security") =>
             n_res.value =
                [t |-> "obj", v |-> << <<K_issues, [t |-> "arr", v |-> <<
                    [t |-> "obj", v |-> <<
                        <<K_description,    [t |-> "str", v |-> T_not_json]>>,
                        <<K_severity,       [t |-> "str", v |-> V_UNKNOWN]>>,
                        <<K_recommendation, [t |-> "str", v |-> V_Check_manually]>>,
                        <<K_pillar,         [t |-> "str", v |-> T_Security]>> >>]
                    >>]>> >>]

\* a fenced reply that is not JSON: the description is the text without fences
C6_Witness ==
    /\ pc = "n_done"
    /\ n_res.parse_failed
    /\ n_raw = FenceJson \o <<"\n">> \o T_not_json \o <<"\n">> \o Fence
    /\ n_res.clean_text = T_not_json

ReadableTf(i) == endswith_tf(walk[i].name) /\ walk[i].readable
UnreadableTf(i) == endswith_tf(walk[i].name) /\ ~walk[i].readable

\* the invocations made for file i and a pillar, in the order they were made
CallsOf(i, pillar) == SelectSeq(calls, LAMBDA c : c.file = i /\ c.pillar = pillar)
CallsOfFile(i) == SelectSeq(calls, LAMBDA c : c.file = i)

HasKey(kvs, key) == \E i \in 1..Len(kvs) : kvs[i][1] = key
Get(kvs, key) == kvs[CHOOSE i \in 1..Len(kvs) : kvs[i][1] = key][2]

PillarIndex(pillar) == CHOOSE q \in 1..Len(pillars) : pillars[q] = pillar

\* the number of text units a file of n characters is analysed in
Units(n) == IF n <= 2000 THEN 1 ELSE CeilDiv(n, 2000)

\* every pillar of the file at idx has been analysed, line 153 is next
FileDone == pc = "m_pillars" /\ p > Len(pillars)

TemplateMissing(pillar) == prompt_filename(pillar) \notin templates

\* C3 as stated: when no template exists for the category,
\* analyze_with_bedrock returns {error: message} and does not raise.
C3_InvokerReturnsError ==
    \A k \in 1..Len(calls) :
        TemplateMissing(calls[k].pillar) =>
            (~calls[k].raised /\ calls[k].value = ErrorOutcome(E_NOENT))

\* C3 amended: when no template exists for the category, analyze_with_bedrock
\* raises the loader's exception to its caller; main catches it and records
\* {error: message} for that (text unit, category) pair, one per text unit,
\* and the run goes on to write its report.
C3_CallerRecordsError ==
    /\ \A k \in 1..Len(calls) :
          TemplateMissing(calls[k].pillar) =>
              (calls[k].raised /\ calls[k].msg = E_NOENT)
    /\ FileDone =>
          \A q \in 1..Len(pillars) :
              TemplateMissing(pillars[q]) =>
                  /\ HasKey(file_results, pillars[q])
                  /\ Get(file_results, pillars[q]) =
                        [k \in 1..Units(content_len) |-> ErrorOutcome(E_NOENT)]
    /\ (pc = "m_done" /\ tf_dir_exists) => Len(written) = 1

\* a chunked file, one template missing, the others present
C3_Witness ==
    /\ FileDone
    /\ content_len = 3500
    /\ TemplateMissing("Security")
    /\ ~TemplateMissing("Reliability")
    /\ Len(Get(file_results, "Security")) = 2

\* C4: the report written at the end holds exactly one entry for each .tf
\* file that was read, files of different subdirectories included, and every
\* entry has an outcome list for each of the six categories.
C4_OneEntryPerFileRead ==
    (pc = "m_done" /\ written # << >>) =>
        /\ Len(written[1]) = Cardinality({i \in 1..Len(walk) : ReadableTf(i)})
        /\ \A e \in 1..Len(written[1]) :
              \A q \in 1..Len(pillars) : HasKey(written[1][e][2], pillars[q])

\* C5: for a file longer than 2000 characters and every category, the invoker
\* is called once per chunk in the order the chunks were cut, category after
\* category; the outcome list has one outcome per chunk in that order, a
\* failed call giving {error: message} at its place; a 3500-character file
\* gives 2 outcomes per category and 12 calls.
C5_OneCallPerChunkInOrder ==
    (FileDone /\ content_len > 2000) =>
        /\ \A q \in 1..Len(pillars) :
              LET cs   == CallsOf(idx, pillars[q])
                  outs == Get(file_results, pillars[q])
                  n    == CeilDiv(content_len, 2000)
              IN  /\ Len(cs) = n
                  /\ Len(outs) = n
                  /\ \A k \in 1..n :
                        /\ cs[k].first = (k - 1) * 2000 + 1
                        /\ cs[k].len = Min(2000, content_len - (k - 1) * 2000)
                        /\ outs[k] = IF cs[k].raised THEN ErrorOutcome(cs[k].msg)
                                     ELSE cs[k].value
        /\ \A a, b \in 1..Len(CallsOfFile(idx)) :
              a < b => PillarIndex(CallsOfFile(idx)[a].pillar)
                         <= PillarIndex(CallsOfFile(idx)[b].pillar)
        /\ content_len = 3500 =>
              /\ Len(CallsOfFile(idx)) = 12
              /\ \A q \in 1..Len(pillars) : Len(Get(file_results, pillars[q])) = 2

\* the call on the first chunk of a category failed, the one on its second
\* chunk was made and returned
C5_Witness ==
    /\ FileDone
    /\ content_len = 3500
    /\ \E q \in 1..Len(pillars) :
          /\ Len(CallsOf(idx, pillars[q])) = 2
          /\ CallsOf(idx, pillars[q])[1].raised
          /\ ~CallsOf(idx, pillars[q])[2].raised

\* every readable .tf file of the walk has been stored and every category of
\* it analysed, unit by unit
AllProcessed ==
    /\ idx = Len(walk) + 1
    /\ \A i \in 1..Len(walk) :
          ReadableTf(i) =>
              /\ \E k \in 1..Len(stored) : stored[k] = i
              /\ \A q \in 1..Len(pillars) :
                    Len(CallsOf(i, pillars[q])) = Units(walk[i].size)

\* C7: in every run where the target directory exists, whatever fails on the
\* way, every file, category and chunk is processed and the report is written
\* exactly once, after all of them, with no write before.
C7_RunCompletes ==
    /\ [](Len(written) <= 1)
    /\ [](written # << >> => (pc = "m_done" /\ AllProcessed))
    /\ [](tf_dir_exists => <>(pc = "m_done" /\ Len(written) = 1))

\* a run that met an unreadable file, a missing template and a failed remote
\* call, and wrote its report
C7_Witness ==
    /\ pc = "m_done"
    /\ Len(written) = 1
    /\ \E i \in 1..Len(walk) : UnreadableTf(i)
    /\ \E k \in 1..Len(calls) : calls[k].raised /\ calls[k].msg = E_NOENT
    /\ \E k \in 1..Len(calls) : calls[k].raised /\ calls[k].msg = E_REMOTE

\* C8: a file of at most 2000 characters (2000 and 0 included) is analysed
\* for each category in exactly one call on the whole content, with a
\* single-element outcome list; a file of 2001 characters or more is cut into
\* at least 2 chunks.
C8_ThresholdIsInclusive ==
    FileDone =>
        \A q \in 1..Len(pillars) :
            LET cs   == CallsOf(idx, pillars[q])
                outs == Get(file_results, pillars[q])
            IN  IF content_len <= 2000
                THEN /\ Len(cs) = 1
                     /\ cs[1].len = content_len
                     /\ cs[1].first = (IF content_len = 0 THEN 0 ELSE 1)
                     /\ Len(outs) = 1
                ELSE /\ Len(cs) >= 2
                     /\ \A k \in 1..Len(cs) : cs[k].len <= 2000

C8_Witness == FileDone /\ content_len = 2000 /\ walk[idx].size = 2000

\* C9: a file that cannot be read is skipped: no call is made for it, it
\* stores no entry in the report, and the files after it are still analysed.
C9_UnreadableFileSkipped ==
    \A i \in 1..Len(walk) :
        UnreadableTf(i) =>
            /\ CallsOfFile(i) = << >>
            /\ \A k \in 1..Len(stored) : stored[k] # i
            /\ (pc = "m_done" /\ tf_dir_exists) =>
                  /\ Len(written) = 1
                  /\ (\A j \in 1..Len(walk) :
                         ReadableTf(j) => walk[j].name # walk[i].name)
                        => ~HasKey(written[1], walk[i].name)
                  /\ \A j \in (i + 1)..Len(walk) :
                        ReadableTf(j) =>
                            /\ \E k \in 1..Len(stored) : stored[k] = j
                            /\ Len(CallsOfFile(j)) = Len(pillars) * Units(walk[j].size)

\* an unreadable file first, a readable one of another name after it
C9_Witness ==
    /\ pc = "m_done"
    /\ Len(walk) = 2
    /\ UnreadableTf(1)
    /\ ReadableTf(2)
    /\ walk[1].name # walk[2].name
    /\ HasKey(written[1], walk[2].name)


====
